---- MODULE Spec2Model ----
(***************************************************************************)
(* A model of pywebscraper: utils.validate_url / write_to_file /           *)
(* clear_directory_content, image.ImageContent and scraper.PyWebScraper.   *)
(*                                                                         *)
(* A Python str is modelled as a sequence of symbols.  A symbol is one     *)
(* character ("/", "?") or a run of characters that holds none of the      *)
(* delimiters the code looks for ("https:", "b.png", "out").  split,       *)
(* replace, startswith and os.path.join are computed on these sequences    *)
(* the way Python computes them on characters.                             *)
(***************************************************************************)
EXTENDS Integers, Sequences, FiniteSets, TLC

VARIABLES url, soup, _content, _images, files, dirs, lastOp, prevOp, nops

vars == <<url, soup, _content, _images, files, dirs, lastOp, prevOp, nops>>

\* ------------------------------------------------------------------ bounds

\* How many operations one behaviour performs on a scraper / a function input.
MaxOps == 2

\* Longest URL tail (the symbols after scheme and host) of the function inputs.
MaxTail == 4

\* Longest parsed document (elements in document order) of the extraction inputs.
MaxElems == 2

\* ------------------------------------------------------------- str helpers

\* Python's None, as a value no str equals.
None == <<"<None>">>

StartsWith(s, p) ==
    /\ Len(p) <= Len(s)
    /\ SubSeq(s, 1, Len(p)) = p

EndsWith(s, p) ==
    /\ Len(p) <= Len(s)
    /\ SubSeq(s, Len(s) - Len(p) + 1, Len(s)) = p

Drop(s, n) == SubSeq(s, n + 1, Len(s))

\* sub in s
Occurs(s, sub) ==
    \E i \in 1..(Len(s) - Len(sub) + 1) : SubSeq(s, i, i + Len(sub) - 1) = sub

\* s.split(d) for a one-character d: the list of the parts between the d's.
RECURSIVE Split(_, _)
Split(s, d) ==
    IF \A i \in 1..Len(s) : s[i] # d
    THEN <<s>>
    ELSE LET k == CHOOSE i \in 1..Len(s) : s[i] = d /\ \A j \in 1..(i - 1) : s[j] # d
         IN  <<SubSeq(s, 1, k - 1)>> \o Split(Drop(s, k), d)

\* d.join(parts)
RECURSIVE JoinWith(_, _)
JoinWith(parts, d) ==
    IF Len(parts) = 0 THEN <<>>
    ELSE IF Len(parts) = 1 THEN parts[1]
    ELSE parts[1] \o <<d>> \o JoinWith(Tail(parts), d)

\* s.replace(old, new): every non-overlapping occurrence, scanning left to right;
\* an empty old matches before every character and at the end.
RECURSIVE Replace(_, _, _)
Replace(s, old, new) ==
    IF old = <<>>
    THEN IF s = <<>> THEN new ELSE new \o <<Head(s)>> \o Replace(Tail(s), old, new)
    ELSE IF Len(s) < Len(old) THEN s
    ELSE IF StartsWith(s, old) THEN new \o Replace(Drop(s, Len(old)), old, new)
    ELSE <<Head(s)>> \o Replace(Tail(s), old, new)

\* ------------------------------------------------------------ os.path, disk

\* os.path.join(a, b) on POSIX.
Join(a, b) ==
    IF StartsWith(b, <<"/">>) THEN b
    ELSE IF a = <<>> \/ EndsWith(a, <<"/">>) THEN a \o b
    ELSE a \o <<"/">> \o b

\* os.path.dirname(p): everything before the last "/", trailing slashes of that
\* head stripped unless it is all slashes.
RECURSIVE RStripSlash(_)
RStripSlash(p) ==
    IF p # <<>> /\ p[Len(p)] = "/" THEN RStripSlash(SubSeq(p, 1, Len(p) - 1)) ELSE p

Dirname(p) ==
    IF \A i \in 1..Len(p) : p[i] # "/" THEN <<>>
    ELSE LET k == CHOOSE i \in 1..Len(p) : p[i] = "/" /\ \A j \in (i + 1)..Len(p) : p[j] # "/"
             head == SubSeq(p, 1, k)
         IN  IF RStripSlash(head) = <<>> THEN head ELSE RStripSlash(head)

\* The file the operating system resolves a path to: runs of "/" count as one
\* and a trailing "/" is dropped.
RECURSIVE Norm(_)
Norm(p) ==
    IF Len(p) = 0 THEN <<>>
    ELSE IF Len(p) = 1 THEN p
    ELSE IF p[1] = "/" /\ p[2] = "/" THEN Norm(Tail(p))
    ELSE IF Len(p) = 2 /\ p[2] = "/" THEN <<p[1]>>
    ELSE <<p[1]>> \o Norm(Tail(p))

\* The directories os.makedirs(p) walks through: p and each of its ancestors.
RECURSIVE Ancestors(_)
Ancestors(p) ==
    IF p = <<>> \/ p = <<"/">> THEN {}
    ELSE {p} \cup (IF Dirname(p) = p THEN {} ELSE Ancestors(Dirname(p)))

\* Whether a normalised path lies inside directory d.
IsUnder(p, d) == StartsWith(p, Norm(d) \o <<"/">>) /\ Len(p) > Len(Norm(d)) + 1

\* ------------------------------------------------------------------ utils

\* validate_url without its check of the scheme.
validate_url_no_scheme(u, probeOk) ==
    IF u = <<>> THEN "ValueError"
    ELSE IF ~probeOk THEN "ValueError"
    ELSE "ok"

\* validate_url(url) given the outcome of the HEAD probe: the exception it raises,
\* or "ok".  The probe is only made when the first two checks pass.
validate_url(u, probeOk) ==
    IF u = <<>> THEN "ValueError"
    ELSE IF ~StartsWith(u, <<"http:", "/", "/">>) /\ ~StartsWith(u, <<"https:", "/", "/">>)
         THEN "ValueError"
    ELSE IF ~probeOk THEN "ValueError"
    ELSE "ok"

\* The network requests validate_url(url) makes.
validate_requests(u) ==
    IF u = <<>> THEN <<>>
    ELSE IF ~StartsWith(u, <<"http:", "/", "/">>) /\ ~StartsWith(u, <<"https:", "/", "/">>)
         THEN <<>>
    ELSE << <<"HEAD", u>> >>

\* A directory a process may open a file in: the working directory, the root,
\* or one that was made.
DirExists(d, D) == d = <<>> \/ d = <<"/">> \/ d \in D

\* open(p, "w") for the file nf that p resolves to: the exception, or "ok" (the
\* file then exists).
open_resolved(nf, F, D) ==
    IF nf = <<>> THEN "FileNotFoundError"
    ELSE IF nf \in D \/ nf = <<"/">> THEN "IsADirectoryError"
    ELSE IF Norm(Dirname(nf)) \in F THEN "NotADirectoryError"
    ELSE IF ~DirExists(Norm(Dirname(nf)), D) THEN "FileNotFoundError"
    ELSE "ok"

OpenForWrite(p, F, D) == open_resolved(Norm(p), F, D)

\* The end of write_to_file, given what open(filepath, "w") did: [err, files].
written(filepath, e, F) ==
    [err |-> e, files |-> IF e = "ok" THEN F \cup {Norm(filepath)} ELSE F]

\* write_to_file(content, path, filename): [err, files].
write_to_file(path, filename, F, D) ==
    written(Join(path, filename), OpenForWrite(Join(path, filename), F, D), F)

\* clear_directory_content for the directory np that path resolves to.
clear_resolved(np, F, D) ==
    IF np \in F THEN [err |-> "NotADirectoryError", files |-> F, dirs |-> D]
    ELSE IF np \notin D THEN [err |-> "FileNotFoundError", files |-> F, dirs |-> D]
    ELSE [err |-> "ok",
          files |-> {f \in F : ~IsUnder(f, np)},
          dirs |-> {d \in D : ~IsUnder(d, np)}]

\* clear_directory_content(path): [err, files, dirs].  os.listdir raises when path is
\* no directory; otherwise every file and subdirectory under it is removed.
clear_directory_content(path, F, D) == clear_resolved(Norm(path), F, D)

\* ------------------------------------------------------------ ImageContent

\* ImageContent.get_filename
Last(parts) == parts[Len(parts)]

get_filename(u) == Split(Last(Split(u, "/")), "?")[1]

\* ImageContent.get_filepath
get_filepath(u) == Split(JoinWith(Drop(Split(u, "/"), 3), "/"), "?")[1]

\* `not image.local_path`
Unset(lp) == lp = None \/ lp = <<>>

\* The end of ImageContent.save: the download was requested and open(full_path,
\* "wb") did `opened`; writing None (a failed download) raises TypeError after the
\* file was created; only a completed write sets local_path.
save_write(image, full_path, opened, dlOk, F, D1) ==
    IF opened # "ok"
    THEN [err |-> opened, files |-> F, dirs |-> D1,
          local_path |-> image.local_path, requests |-> << <<"GET", image.url>> >>]
    ELSE IF ~dlOk
    THEN [err |-> "TypeError", files |-> F \cup {Norm(full_path)}, dirs |-> D1,
          local_path |-> image.local_path, requests |-> << <<"GET", image.url>> >>]
    ELSE [err |-> "ok", files |-> F \cup {Norm(full_path)}, dirs |-> D1,
          local_path |-> full_path, requests |-> << <<"GET", image.url>> >>]

\* ImageContent.save from the directory check on: nb is what base_path resolves to.
\* os.makedirs raises when base_path is empty or one of its ancestors is a file.
save_makedirs(image, full_path, nb, dlOk, F, D) ==
    IF nb # <<>> /\ (nb = <<"/">> \/ nb \in D \/ nb \in F)
    THEN save_write(image, full_path, OpenForWrite(full_path, F, D), dlOk, F, D)
    ELSE IF nb = <<>> \/ \E a \in Ancestors(nb) : a \in F
    THEN [err |-> "OSError", files |-> F, dirs |-> D,
          local_path |-> image.local_path, requests |-> <<>>]
    ELSE save_write(image, full_path,
                    OpenForWrite(full_path, F, D \cup Ancestors(nb)),
                    dlOk, F, D \cup Ancestors(nb))

\* ImageContent.save once full_path is computed.
save_to(image, full_path, dlOk, F, D) ==
    save_makedirs(image, full_path, Norm(Dirname(full_path)), dlOk, F, D)

\* ImageContent.save(path, use_subdirectories) on the disk (F, D), given whether the
\* download succeeds: [err, files, dirs, local_path, requests].
save(image, path, use_subdirectories, dlOk, F, D) ==
    save_to(image,
            Join(path, IF use_subdirectories THEN get_filepath(image.url)
                       ELSE get_filename(image.url)),
            dlOk, F, D)

\* ------------------------------------------------------------ PyWebScraper

\* The parsed document before construction succeeds.
NoSoup == [elems |-> <<>>, imgs |-> <<>>, parsed |-> FALSE]

\* soup.find(tag): the first element with that tag in document order, 0 for None.
FindTag(elems, tag) ==
    IF \E i \in 1..Len(elems) : elems[i].tag = tag
    THEN CHOOSE i \in 1..Len(elems) :
            elems[i].tag = tag /\ \A j \in 1..(i - 1) : elems[j].tag # tag
    ELSE 0

\* The class search without the tag: soup.find(class_="content").
IsContentDiv_any(e) == "content" \in e.cls

\* Whether soup.find("div", {"class": "content"}) matches an element: a div whose
\* class attribute holds the token content.
IsContentDiv(e) == e.tag = "div" /\ "content" \in e.cls

\* soup.find("div", {"class": "content"}), 0 for None.
FindContentDiv(elems) ==
    IF \E i \in 1..Len(elems) : IsContentDiv(elems[i])
    THEN CHOOSE i \in 1..Len(elems) :
            IsContentDiv(elems[i]) /\ \A j \in 1..(i - 1) : ~IsContentDiv(elems[j])
    ELSE 0

\* a or b: a Tag is truthy, None is not.
Or(a, b) == IF a # 0 THEN a ELSE b

\* PyWebScraper.extract_content: the element chosen (its position), 0 for None.
extract_content(sp) ==
    Or(Or(FindTag(sp.elems, "article"),
          Or(FindContentDiv(sp.elems), FindTag(sp.elems, "body"))),
       FindTag(sp.elems, "body"))

\* One item of an element's serialisation: text as it is, an image reference as
\* the renderer writes it around the image's URL.
RenderItem(fmt, item) ==
    IF item.k = "img"
    THEN IF fmt = "md" THEN <<"![](">> \o item.v \o <<")">>
         ELSE <<"<img src=">> \o item.v \o <<">">>
    ELSE item.v

RECURSIVE RenderItems(_, _)
RenderItems(fmt, items) ==
    IF items = <<>> THEN <<>>
    ELSE RenderItem(fmt, Head(items)) \o RenderItems(fmt, Tail(items))

\* get_content_html / get_content_markdown: str(content), through markdownify for
\* Markdown; str(None) is the text None.
render(fmt, sp, c) == IF c = 0 THEN <<"None">> ELSE RenderItems(fmt, sp.elems[c].text)

get_content(fmt, sp) == render(fmt, sp, extract_content(sp))

\* PyWebScraper.extract_images: the (src) of every img that has a non-empty src.
RECURSIVE extract_images(_)
extract_images(imgs) ==
    IF imgs = <<>> THEN <<>>
    ELSE (IF Unset(Head(imgs).src) THEN <<>> ELSE <<Head(imgs).src>>)
         \o extract_images(Tail(imgs))

\* The ImageContent constructions of get_images, in order, given whether the
\* reachability probes succeed: [err, requests].
RECURSIVE construct_images(_, _)
construct_rest(u, e, rest) ==
    IF e # "ok" THEN [err |-> e, requests |-> validate_requests(u)]
    ELSE [err |-> rest.err, requests |-> validate_requests(u) \o rest.requests]

construct_images(urls, probesOk) ==
    IF urls = <<>> THEN [err |-> "ok", requests |-> <<>>]
    ELSE construct_rest(Head(urls), validate_url(Head(urls), probesOk),
                        construct_images(Tail(urls), probesOk))

\* `self._images is None`: the list before get_images built it.  No ImageContent
\* has this url, so no list get_images builds equals it.
ImagesNone == <<[url |-> None, local_path |-> None]>>

\* get_images once the ImageContent objects were constructed (or one raised).
images_built(urls, c) ==
    IF c.err # "ok"
    THEN [err |-> c.err, images |-> ImagesNone, requests |-> c.requests]
    ELSE [err |-> "ok",
          images |-> [i \in 1..Len(urls) |-> [url |-> urls[i], local_path |-> None]],
          requests |-> c.requests]

images_from(urls, probesOk) == images_built(urls, construct_images(urls, probesOk))

\* PyWebScraper.get_images: [err, images, requests]; the cached list when there is one.
get_images(images, sp, probesOk) ==
    IF images # ImagesNone THEN [err |-> "ok", images |-> images, requests |-> <<>>]
    ELSE images_from(extract_images(sp.imgs), probesOk)

\* _process_images saving every image, persisted or not.
NeedsSave_always(image) == TRUE

\* _process_images with its test of local_path inverted.
NeedsSave_inverted(image) == ~Unset(image.local_path)

\* Whether the loop of _process_images saves this image.
NeedsSave(image) == Unset(image.local_path)

\* The text _process_images puts in place of an image's URL.
LocalRef(local_path, path) == Replace(local_path, path, <<>>)

\* What a call of image.save in a loop leaves in the state w the loop carries:
\* [images, files, dirs, content, err, downloaded, refs, requests].
saved(i, w, r) ==
    [w EXCEPT !.files = r.files, !.dirs = r.dirs, !.err = r.err,
              !.images[i].local_path = r.local_path,
              !.downloaded = @ \cup (IF r.requests # <<>> THEN {i} ELSE {}),
              !.requests = @ \o r.requests]

\* content = content.replace(image.url, image.local_path.replace(path, ""))
replaced(i, w, ref) ==
    [w EXCEPT !.content = Replace(@, w.images[i].url, ref), !.refs = @ \o <<ref>>]

\* The loop of _process_images from image i on.
RECURSIVE process_from(_, _, _, _, _, _)
process_replace(i, w, path, save_path, flatten_images, fails) ==
    IF w.err # "ok" THEN w
    ELSE process_from(i + 1, replaced(i, w, LocalRef(w.images[i].local_path, path)),
                      path, save_path, flatten_images, fails)

process_from(i, w, path, save_path, flatten_images, fails) ==
    IF i > Len(w.images) THEN w
    ELSE IF NeedsSave(w.images[i])
    THEN process_replace(i,
             saved(i, w, save(w.images[i], save_path, ~flatten_images, i \notin fails,
                              w.files, w.dirs)),
             path, save_path, flatten_images, fails)
    ELSE process_replace(i, w, path, save_path, flatten_images, fails)

\* The state a loop over the images starts in, given what get_images returned.
loop_start(g, content, F, D) ==
    [images |-> g.images, files |-> F, dirs |-> D, content |-> content,
     err |-> g.err, downloaded |-> {}, refs |-> <<>>, requests |-> g.requests]

\* _process_images after its call of get_images.
process_all(w0, path, save_path, flatten_images, fails) ==
    IF w0.err # "ok" THEN w0
    ELSE process_from(1, w0, path, save_path, flatten_images, fails)

\* PyWebScraper._process_images(content, path, images_dir_name, flatten_images).
_process_images(content, path, images_dir_name, flatten_images, images, sp, F, D, probesOk, fails) ==
    process_all(loop_start(get_images(images, sp, probesOk), content, F, D),
                path, Join(path, images_dir_name), flatten_images, fails)

\* The loop of save_images from image i on: image.save(path=path) for every image.
RECURSIVE save_from(_, _, _, _)
save_from(i, w, path, fails) ==
    IF i > Len(w.images) \/ w.err # "ok" THEN w
    ELSE save_from(i + 1,
                   saved(i, w, save(w.images[i], path, TRUE, i \notin fails,
                                    w.files, w.dirs)),
                   path, fails)

save_all(w0, path, fails) == IF w0.err # "ok" THEN w0 ELSE save_from(1, w0, path, fails)

\* PyWebScraper.save_images(path).
save_images(path, images, sp, F, D, probesOk, fails) ==
    save_all(loop_start(get_images(images, sp, probesOk), <<>>, F, D), path, fails)

\* The default file name of save_markdown / save_content_html.
DefaultFilename(fmt) == IF fmt = "md" THEN <<"index.md">> ELSE <<"index.html">>

\* The end of save_markdown / save_content_html: write_to_file did wr.
save_written(w1, wr) ==
    [w1 EXCEPT !.files = wr.files, !.err = wr.err,
               !.content = IF wr.err = "ok" THEN @ ELSE <<>>]

\* save_markdown / save_content_html after the images were processed (or not).
save_processed(w1, path, filename) ==
    IF w1.err # "ok" THEN [w1 EXCEPT !.content = <<>>]
    ELSE save_written(w1, write_to_file(path, filename, w1.files, w1.dirs))

\* save_markdown / save_content_html after the output directory was cleared (or not).
save_cleared(cl, content, path, filename, download_images, images_dir_name, flatten_images, images, sp, probesOk, fails) ==
    IF cl.err # "ok"
    THEN [images |-> images, files |-> cl.files, dirs |-> cl.dirs, content |-> <<>>,
          err |-> cl.err, downloaded |-> {}, refs |-> <<>>, requests |-> <<>>]
    ELSE IF download_images
    THEN save_processed(_process_images(content, path, images_dir_name, flatten_images,
                                        images, sp, cl.files, cl.dirs, probesOk, fails),
                        path, filename)
    ELSE save_processed([images |-> images, files |-> cl.files, dirs |-> cl.dirs,
                         content |-> content, err |-> "ok", downloaded |-> {},
                         refs |-> <<>>, requests |-> <<>>],
                        path, filename)

\* save_markdown (fmt = "md") / save_content_html (fmt = "html"):
\* [images, files, dirs, content, err, downloaded, refs, requests].
save_content(fmt, path, filename, download_images, images_dir_name, clear_output_dir, flatten_images, images, sp, F, D, probesOk, fails) ==
    save_cleared(IF clear_output_dir THEN clear_directory_content(path, F, D)
                 ELSE [err |-> "ok", files |-> F, dirs |-> D],
                 get_content(fmt, sp), path, filename, download_images, images_dir_name,
                 flatten_images, images, sp, probesOk, fails)

\* ------------------------------------------------------------------ inputs

Host == <<"https:", "/", "/", "h">>

\* Every str of at most n symbols over the alphabet A.
RECURSIVE Strs(_, _)
Strs(A, n) ==
    IF n = 0 THEN {<<>>}
    ELSE LET shorter == Strs(A, n - 1)
         IN  shorter \cup {<<a>> \o t : a \in A, t \in {x \in shorter : Len(x) = n - 1}}

\* URLs an ImageContent can hold (they passed validate_url): a host and a tail.
ImageUrls ==
    {Host \o t : t \in {x \in Strs({"/", "?", "a", "b"}, MaxTail) : x = <<>> \/ x[1] = "/"}}

\* URLs a caller may hand to validate_url / PyWebScraper: empty, http, https,
\* another scheme, a scheme without //, no scheme.
CtorUrls ==
    {<<>>} \cup
    {pre \o t : pre \in {Host, <<"http:", "/", "/", "h">>, <<"ftp:", "/", "/", "h">>,
                         <<"http:", "h">>, <<"h">>},
                t \in Strs({"/", "?", "a"}, MaxTail)}

\* Elements a parsed document is made of: a tag and the tokens of its class attribute.
ElemKinds ==
    {[tag |-> t, cls |-> c, text |-> << [k |-> "txt", v |-> <<t>>] >>] :
        t \in {"article", "div", "section", "body", "p"},
        c \in {{}, {"content"}, {"main", "content"}, {"contents"}}}

RECURSIVE ElemSeqs(_)
ElemSeqs(n) ==
    IF n = 0 THEN {<<>>}
    ELSE LET shorter == ElemSeqs(n - 1)
         IN  shorter \cup {<<e>> \o t : e \in ElemKinds, t \in {x \in shorter : Len(x) = n - 1}}

\* The documents of the extraction specification: no images.
ExtractDocs == {[elems |-> es, imgs |-> <<>>, parsed |-> TRUE] : es \in ElemSeqs(MaxElems)}

\* Image URLs of the pages of the asset specification.
U_ab == Host \o <<"/", "a", "/", "b.png", "?", "s=1">>
U_p == Host \o <<"/", "a.png">>
U_pq == Host \o <<"/", "a.png", "?", "s=2">>
U_out == Host \o <<"/", "out", "/", "b.png">>
U_rel == <<"/", "b.png">>

Img(u) == [k |-> "img", v |-> u]
Txt(t) == [k |-> "txt", v |-> <<t>>]

\* A page whose body holds the given items and whose img elements have the given srcs.
Page(items, srcs) ==
    [elems |-> << [tag |-> "body", cls |-> {}, text |-> items] >>,
     imgs |-> [i \in 1..Len(srcs) |-> [src |-> srcs[i]]],
     parsed |-> TRUE]

\* The pages of the asset specification: one image with a query string; two images
\* of which one URL is a prefix of the other; an image whose URL path holds the
\* output directory's name; one image referenced twice; an img without src; an
\* img with a relative src.
Pages ==
    { Page(<<Img(U_ab)>>, <<U_ab>>),
      Page(<<Img(U_p), Txt(" "), Img(U_pq)>>, <<U_p, U_pq>>),
      Page(<<Img(U_out)>>, <<U_out>>),
      Page(<<Img(U_ab), Txt(" "), Img(U_ab)>>, <<U_ab, U_ab>>),
      Page(<<Txt("t")>>, <<None>>),
      Page(<<Img(U_rel)>>, <<U_rel>>) }

\* Output directories a caller passes as path.
Paths == {<<"out">>, <<"o2">>}

ImagesDirName == <<"images">>

\* ------------------------------------------------------------------- state

\* The record of the last call: what was called with which arguments, the
\* exception it raised ("ok" for none), what it returned or wrote (out), and what
\* it did on the way.
Call(op, a, r) ==
    [op |-> op, fmt |-> a.fmt, path |-> a.path, dl |-> a.dl, clear |-> a.clear,
     flat |-> a.flat, idx |-> a.idx, probeOk |-> a.probeOk,
     err |-> r.err, out |-> r.out, rendered |-> r.rendered, preset |-> r.preset,
     downloaded |-> r.downloaded, failed |-> r.failed, refs |-> r.refs,
     requests |-> r.requests, before |-> r.before]

NoArgs == [fmt |-> "", path |-> <<>>, dl |-> FALSE, clear |-> FALSE, flat |-> FALSE,
           idx |-> 0, probeOk |-> TRUE]

NoResult == [err |-> "ok", out |-> <<>>, rendered |-> <<>>, preset |-> {},
             downloaded |-> {}, failed |-> {}, refs |-> <<>>, requests |-> <<>>,
             before |-> {}]

NoCall == Call("none", NoArgs, NoResult)

\* The images that have a local_path.
Persisted(images) ==
    IF images = ImagesNone THEN {}
    ELSE {i \in 1..Len(images) : ~Unset(images[i].local_path)}

NumImages(sp) == Len(extract_images(sp.imgs))

\* ----------------------------------------------------------------- actions

\* validate_url(url), called on its own.
ValidateUrlCall(probeOk) ==
    /\ nops < MaxOps
    /\ lastOp' = Call("validate_url", [NoArgs EXCEPT !.probeOk = probeOk],
                      [NoResult EXCEPT !.err = validate_url(url, probeOk),
                                       !.requests = validate_requests(url)])
    /\ prevOp' = lastOp
    /\ nops' = nops + 1
    /\ UNCHANGED <<url, soup, _content, _images, files, dirs>>

\* The constructor once validate_url returned or raised v.
Constructed(v, probeOk, fetchOk, doc) ==
    /\ lastOp' = Call("PyWebScraper", [NoArgs EXCEPT !.probeOk = probeOk],
                      [NoResult EXCEPT
                          !.err = IF v # "ok" THEN v
                                  ELSE IF fetchOk THEN "ok" ELSE "TypeError",
                          !.requests = validate_requests(url)
                                       \o (IF v = "ok" THEN << <<"GET", url>> >> ELSE <<>>)])
    /\ soup' = IF v = "ok" /\ fetchOk THEN doc ELSE soup

\* PyWebScraper(url): validate_url, then _fetch_html, then the parse.  A failed
\* fetch hands None to the parser, which raises TypeError.
Construct(probeOk, fetchOk, doc) ==
    /\ nops < MaxOps
    /\ ~soup.parsed
    /\ Constructed(validate_url(url, probeOk), probeOk, fetchOk, doc)
    /\ prevOp' = lastOp
    /\ nops' = nops + 1
    /\ UNCHANGED <<url, _content, _images, files, dirs>>

\* image.get_filename() on an ImageContent holding url.
GetFilenameCall ==
    /\ nops < MaxOps
    /\ lastOp' = Call("get_filename", NoArgs, [NoResult EXCEPT !.out = get_filename(url)])
    /\ prevOp' = lastOp
    /\ nops' = nops + 1
    /\ UNCHANGED <<url, soup, _content, _images, files, dirs>>

\* image.get_filepath() on an ImageContent holding url.
GetFilepathCall ==
    /\ nops < MaxOps
    /\ lastOp' = Call("get_filepath", NoArgs, [NoResult EXCEPT !.out = get_filepath(url)])
    /\ prevOp' = lastOp
    /\ nops' = nops + 1
    /\ UNCHANGED <<url, soup, _content, _images, files, dirs>>

\* scraper.extract_content()
ExtractContentCall ==
    /\ nops < MaxOps
    /\ soup.parsed
    /\ _content' = extract_content(soup)
    /\ lastOp' = Call("extract_content", [NoArgs EXCEPT !.idx = extract_content(soup)],
                      NoResult)
    /\ prevOp' = lastOp
    /\ nops' = nops + 1
    /\ UNCHANGED <<url, soup, _images, files, dirs>>

\* What a call that went through the images leaves behind: r is what the call
\* computed, a its arguments.
Applied(op, a, r, rendered, fails) ==
    /\ _images' = r.images
    /\ files' = r.files
    /\ dirs' = r.dirs
    /\ lastOp' = Call(op, a,
                      [err |-> r.err,
                       out |-> IF r.err = "ok" THEN r.content ELSE <<>>,
                       rendered |-> rendered,
                       preset |-> Persisted(_images),
                       downloaded |-> r.downloaded,
                       failed |-> r.downloaded \cap fails,
                       refs |-> r.refs, requests |-> r.requests,
                       before |-> files])
    /\ prevOp' = lastOp
    /\ nops' = nops + 1

\* save_markdown / save_content_html, given whether clearing the directory raised.
SaveContentFrom(cleared, fmt, path, download_images, clear_output_dir, flatten_images, probesOk, fails) ==
    /\ _content' = IF cleared THEN extract_content(soup) ELSE _content
    /\ \E r \in {save_content(fmt, path, DefaultFilename(fmt), download_images,
                              ImagesDirName, clear_output_dir, flatten_images,
                              _images, soup, files, dirs, probesOk, fails)} :
          Applied(IF fmt = "md" THEN "save_markdown" ELSE "save_content_html",
                  [NoArgs EXCEPT !.fmt = fmt, !.path = path, !.dl = download_images,
                                 !.clear = clear_output_dir, !.flat = flatten_images],
                  r, IF cleared THEN get_content(fmt, soup) ELSE <<>>, fails)

\* scraper.save_markdown(...) / scraper.save_content_html(...) with the default
\* filename and images_dir_name.
SaveContent(fmt, path, download_images, clear_output_dir, flatten_images, probesOk, fails) ==
    /\ nops < MaxOps
    /\ soup.parsed
    /\ SaveContentFrom(~clear_output_dir
                         \/ clear_directory_content(path, files, dirs).err = "ok",
                       fmt, path, download_images, clear_output_dir, flatten_images,
                       probesOk, fails)
    /\ UNCHANGED <<url, soup>>

\* content = scraper.get_content_markdown() / get_content_html(), then
\* scraper._process_images(content, path, flatten_images=...).
ProcessImagesCall(fmt, path, flatten_images, probesOk, fails) ==
    /\ nops < MaxOps
    /\ soup.parsed
    /\ _content' = extract_content(soup)
    /\ \E r \in {_process_images(get_content(fmt, soup), path, ImagesDirName,
                                 flatten_images, _images, soup, files, dirs,
                                 probesOk, fails)} :
          Applied("_process_images",
                  [NoArgs EXCEPT !.fmt = fmt, !.path = path, !.dl = TRUE,
                                 !.flat = flatten_images],
                  r, get_content(fmt, soup), fails)
    /\ UNCHANGED <<url, soup>>

\* scraper.save_images(path)
SaveImages(path, probesOk, fails) ==
    /\ nops < MaxOps
    /\ soup.parsed
    /\ \E r \in {save_images(path, _images, soup, files, dirs, probesOk, fails)} :
          Applied("save_images", [NoArgs EXCEPT !.path = path], r, <<>>, fails)
    /\ UNCHANGED <<url, soup, _content>>

\* image.save once it computed r: the image, alone, takes the new local_path.
ImageSaved(i, a, r) ==
    /\ _images' = [_images EXCEPT ![i].local_path = r.local_path]
    /\ files' = r.files
    /\ dirs' = r.dirs
    /\ lastOp' = Call("save", a,
                      [NoResult EXCEPT
                          !.err = r.err,
                          !.out = IF r.err = "ok" THEN r.local_path ELSE <<>>,
                          !.preset = Persisted(_images),
                          !.downloaded = IF r.requests # <<>> THEN {i} ELSE {},
                          !.failed = IF r.err = "TypeError" THEN {i} ELSE {},
                          !.requests = r.requests,
                          !.before = files])

\* scraper.get_images()[i].save(path, use_subdirectories) on an image the caller
\* got from get_images earlier.
ImageSave(i, path, use_subdirectories, dlOk) ==
    /\ nops < MaxOps
    /\ _images # ImagesNone
    /\ i \in 1..Len(_images)
    /\ \E r \in {save(_images[i], path, use_subdirectories, dlOk, files, dirs)} :
          ImageSaved(i, [NoArgs EXCEPT !.path = path, !.idx = i,
                                       !.flat = ~use_subdirectories], r)
    /\ prevOp' = lastOp
    /\ nops' = nops + 1
    /\ UNCHANGED <<url, soup, _content>>

\* ---------------------------------------------------------- specifications

\* A scraper constructed on a page, before any call; the output directories
\* exist or not.
Init ==
    /\ url = Host
    /\ soup \in Pages
    /\ _content = 0
    /\ _images = ImagesNone
    /\ files = {}
    /\ dirs \in {{}, Paths}
    /\ lastOp = NoCall
    /\ prevOp = NoCall
    /\ nops = 0

\* The outcomes of the network a call can meet: every probe and download
\* succeeds, a probe fails, or the download of one image fails.
Fails(sp) == {{}} \cup {{i} : i \in 1..NumImages(sp)}

Next ==
    \/ /\ nops < MaxOps
       /\ \E fmt \in {"md", "html"}, path \in Paths, dl \in BOOLEAN, clear \in BOOLEAN,
             flat \in BOOLEAN, probesOk \in BOOLEAN, fails \in SUBSET (1..NumImages(soup)) :
               SaveContent(fmt, path, dl, clear, flat, probesOk, fails)
    \/ /\ nops < MaxOps
       /\ \E fmt \in {"md", "html"}, path \in Paths, flat \in BOOLEAN, probesOk \in BOOLEAN,
             fails \in SUBSET (1..NumImages(soup)) :
               ProcessImagesCall(fmt, path, flat, probesOk, fails)
    \/ /\ nops < MaxOps
       /\ \E path \in Paths \cup {Join(p, ImagesDirName) : p \in Paths},
             probesOk \in BOOLEAN, fails \in SUBSET (1..NumImages(soup)) :
               SaveImages(path, probesOk, fails)
    \/ /\ nops < MaxOps
       /\ \E i \in 1..NumImages(soup), path \in {Join(p, ImagesDirName) : p \in Paths},
             sub \in BOOLEAN, dlOk \in BOOLEAN :
               ImageSave(i, path, sub, dlOk)

Spec == Init /\ [][Next]_vars

\* The calls of _process_images alone, on the same scrapers.
NextRewrite ==
    /\ nops < MaxOps
    /\ \E fmt \in {"md", "html"}, path \in Paths, flat \in BOOLEAN, probesOk \in BOOLEAN,
          fails \in Fails(soup) :
            /\ (probesOk \/ (_images = ImagesNone /\ fails = {}))
            /\ ProcessImagesCall(fmt, path, flat, probesOk, fails)

SpecRewrite == Init /\ [][NextRewrite]_vars

\* The calls that persist images: save_images, save_markdown and
\* save_content_html with download_images, and image.save.
NextAssets ==
    \/ /\ nops < MaxOps
       /\ \E fmt \in {"md", "html"}, path \in Paths, flat \in BOOLEAN, fails \in Fails(soup) :
               SaveContent(fmt, path, TRUE, FALSE, flat, TRUE, fails)
    \/ /\ nops < MaxOps
       /\ \E path \in {Join(p, ImagesDirName) : p \in Paths}, fails \in Fails(soup) :
               SaveImages(path, TRUE, fails)
    \/ /\ nops < MaxOps
       /\ \E i \in 1..NumImages(soup), path \in {Join(p, ImagesDirName) : p \in Paths},
             sub \in BOOLEAN, dlOk \in BOOLEAN :
               ImageSave(i, path, sub, dlOk)

SpecAssets == Init /\ [][NextAssets]_vars

\* A URL handed to validate_url and to the constructor.
InitCtor ==
    /\ url \in CtorUrls
    /\ soup = NoSoup
    /\ _content = 0
    /\ _images = ImagesNone
    /\ files = {}
    /\ dirs = {}
    /\ lastOp = NoCall
    /\ prevOp = NoCall
    /\ nops = 0

NextCtor ==
    \/ \E probeOk \in BOOLEAN : ValidateUrlCall(probeOk)
    \/ \E probeOk \in BOOLEAN, fetchOk \in BOOLEAN, doc \in Pages :
            Construct(probeOk, fetchOk, doc)

SpecCtor == InitCtor /\ [][NextCtor]_vars

\* An ImageContent holding a URL.
InitUrl ==
    /\ url \in ImageUrls
    /\ soup = NoSoup
    /\ _content = 0
    /\ _images = ImagesNone
    /\ files = {}
    /\ dirs = {}
    /\ lastOp = NoCall
    /\ prevOp = NoCall
    /\ nops = 0

NextUrl == GetFilenameCall \/ GetFilepathCall

SpecUrl == InitUrl /\ [][NextUrl]_vars

\* A scraper constructed on a document, the output directory existing.
InitExtract ==
    /\ url = Host
    /\ soup \in ExtractDocs
    /\ _content = 0
    /\ _images = ImagesNone
    /\ files = {}
    /\ dirs = {<<"out">>}
    /\ lastOp = NoCall
    /\ prevOp = NoCall
    /\ nops = 0

NextExtract ==
    \/ ExtractContentCall
    \/ \E fmt \in {"md", "html"} :
            SaveContent(fmt, <<"out">>, FALSE, FALSE, FALSE, TRUE, {})

SpecExtract == InitExtract /\ [][NextExtract]_vars

\* ------------------------------------------------------------------ claims

IsRewrite(c) == c.op \in {"save_markdown", "save_content_html", "_process_images"} /\ c.dl

IsSave(c) == c.op \in {"save_markdown", "save_content_html"}

\* C1: per-image failure isolation.  When the download of an image fails during
\* asset rewriting, the call still completes without raising, every other asset
\* is persisted, and the failed asset keeps local_path unset with its URL left in
\* the content.
C1_FailureIsolated ==
    (IsRewrite(lastOp) /\ lastOp.failed # {}) =>
        /\ lastOp.err = "ok"
        /\ \A i \in 1..Len(_images) :
              IF i \in lastOp.failed
              THEN /\ Unset(_images[i].local_path)
                   /\ Occurs(lastOp.rendered, _images[i].url)
                        => Occurs(lastOp.out, _images[i].url)
              ELSE ~Unset(_images[i].local_path)

\* A URL validate_url must reject: empty, not beginning with http:// or https://,
\* or failing the reachability probe.
Invalid(u, probeOk) ==
    \/ Len(u) = 0
    \/ Len(u) < 3
    \/ ~(u[1] \in {"http:", "https:"} /\ u[2] = "/" /\ u[3] = "/")
    \/ ~probeOk

\* C2: URL validation gates the pipeline.  An empty URL, a URL without the http://
\* or https:// prefix and a URL whose probe fails each make validate_url raise the
\* invalid-URL error, and the constructor then raises it before any GET of the
\* page: nothing is fetched or parsed.
C2_ValidationGates ==
    /\ (lastOp.op \in {"validate_url", "PyWebScraper"} /\ Invalid(url, lastOp.probeOk))
          => lastOp.err = "ValueError"
    /\ (lastOp.op = "PyWebScraper" /\ Invalid(url, lastOp.probeOk))
          => /\ \A k \in 1..Len(lastOp.requests) : lastOp.requests[k][1] # "GET"
             /\ ~soup.parsed

\* C2's case: the constructor given an https URL whose probe failed.
C2_Witness ==
    /\ lastOp.op = "PyWebScraper"
    /\ StartsWith(url, <<"https:", "/", "/">>)
    /\ ~lastOp.probeOk
    /\ lastOp.err = "ValueError"
    /\ lastOp.requests = << <<"HEAD", url>> >>

\* The assets whose URL occurs at the head of s, and the longest such URL's asset
\* (the first in list order among equals).
MatchesAt(s, images) == {i \in 1..Len(images) : StartsWith(s, images[i].url)}

BestMatch(s, images) ==
    CHOOSE i \in MatchesAt(s, images) :
        \A j \in MatchesAt(s, images) :
            \/ Len(images[j].url) < Len(images[i].url)
            \/ (Len(images[j].url) = Len(images[i].url) /\ i <= j)

\* Every occurrence, in s, of every asset's URL replaced by that asset's reference.
RECURSIVE RewriteAll(_, _, _)
RewriteAll(s, images, refs) ==
    IF s = <<>> THEN <<>>
    ELSE IF MatchesAt(s, images) = {} THEN <<Head(s)>> \o RewriteAll(Tail(s), images, refs)
    ELSE refs[BestMatch(s, images)]
         \o RewriteAll(Drop(s, Len(images[BestMatch(s, images)].url)), images, refs)

\* C3: replace-all rewriting.  After _process_images processed assets that were all
\* persisted, every occurrence in the original content of every asset's URL is
\* replaced by that asset's local path, also when one asset's URL is a prefix of
\* another's, and no asset's URL is left in the returned content.
C3_AllOccurrencesReplaced ==
    (IsRewrite(lastOp) /\ lastOp.err = "ok") =>
        /\ lastOp.out = RewriteAll(lastOp.rendered, _images, lastOp.refs)
        /\ \A i \in 1..Len(_images) : ~Occurs(lastOp.out, _images[i].url)

\* C4: relative local reference.  The text substituted for an asset's URL is the
\* asset's local_path with the leading output directory removed and nothing else
\* removed, also when the URL path holds the output directory's name.
C4_RelativeRef ==
    (IsRewrite(lastOp) /\ lastOp.err = "ok") =>
        \A i \in 1..Len(_images) :
            StartsWith(_images[i].local_path, lastOp.path)
                => lastOp.refs[i] = Drop(_images[i].local_path, Len(lastOp.path))

SameArgs(c, d) ==
    /\ c.op = d.op
    /\ c.fmt = d.fmt
    /\ c.path = d.path
    /\ c.flat = d.flat
    /\ c.rendered = d.rendered

\* C5: _process_images is idempotent on persisted assets.  A call downloads no
\* asset whose local_path was already set, and a second call with the same
\* content, assets and arguments returns the same content as the first.
C5_RewriteIdempotent ==
    /\ lastOp.op = "_process_images" => lastOp.downloaded \cap lastOp.preset = {}
    /\ (lastOp.op = "_process_images" /\ SameArgs(lastOp, prevOp) /\ prevOp.err = "ok")
          => /\ lastOp.err = "ok"
             /\ lastOp.out = prevOp.out
             /\ lastOp.downloaded = {}

\* C5's case: a second call after a first one that downloaded and rewrote.
C5_Witness ==
    /\ lastOp.op = "_process_images"
    /\ SameArgs(lastOp, prevOp)
    /\ prevOp.err = "ok"
    /\ prevOp.downloaded # {}
    /\ lastOp.preset # {}
    /\ lastOp.out = prevOp.out
    /\ lastOp.out # lastOp.rendered

\* The first position of elems that satisfies P, 0 when none does.
FirstWhere(elems, P(_)) ==
    IF {i \in 1..Len(elems) : P(elems[i])} = {} THEN 0
    ELSE CHOOSE i \in {k \in 1..Len(elems) : P(elems[k])} :
            \A j \in {k \in 1..Len(elems) : P(elems[k])} : i <= j

IsArticle(e) == e.tag = "article"
IsBody(e) == e.tag = "body"
HasContentClass(e) == "content" \in e.cls
IsDivWithContentClass(e) == e.tag = "div" /\ "content" \in e.cls

\* The region the priority article > content-class > body selects, the content
\* class being looked for on the elements that satisfy P.
Selected(elems, P(_)) ==
    IF FirstWhere(elems, IsArticle) # 0 THEN FirstWhere(elems, IsArticle)
    ELSE IF FirstWhere(elems, P) # 0 THEN FirstWhere(elems, P)
    ELSE FirstWhere(elems, IsBody)

\* C6 as stated: extract_content returns the first article, else the first element
\* of any tag whose class holds the token content, else the body.
C6_AnyTagContent ==
    lastOp.op = "extract_content" => lastOp.idx = Selected(soup.elems, HasContentClass)

\* C6 as amended: extract_content returns the first article, else the first div
\* whose class holds the token content, else the body; the same region every time
\* it is applied to the document.
C6_DivContent ==
    /\ lastOp.op = "extract_content"
          => /\ lastOp.idx = Selected(soup.elems, IsDivWithContentClass)
             /\ _content = lastOp.idx
    /\ (lastOp.op = "extract_content" /\ prevOp.op = "extract_content")
          => lastOp.idx = prevOp.idx

\* C6's case: a document without article where a div of class content comes after
\* another element of class content, extracted twice.
C6_Witness ==
    /\ lastOp.op = "extract_content"
    /\ prevOp.op = "extract_content"
    /\ FirstWhere(soup.elems, IsArticle) = 0
    /\ FirstWhere(soup.elems, HasContentClass) = 1
    /\ lastOp.idx = 2

\* C7: no content is fatal.  On a document without article, content-class element
\* and body, extraction fails with the no-content error and save_markdown /
\* save_content_html write no file.
C7_NoContentFatal ==
    (/\ lastOp.op \in {"extract_content", "save_markdown", "save_content_html"}
     /\ Selected(soup.elems, HasContentClass) = 0)
        => /\ lastOp.err = "NoContentError"
           /\ IsSave(lastOp) => files = lastOp.before

\* C8 as stated: local_path is write-once.  Once an asset's local_path is set, no
\* operation changes it.
C8_WriteOnce ==
    [][\A i \in Persisted(_images) :
          _images'[i].local_path = _images[i].local_path]_vars

\* C8 as amended: local_path is absent until a save of the asset wrote its file;
\* once set it is never absent again and save_markdown / save_content_html /
\* _process_images never change it; only save_images and image.save, which
\* download the asset again, set it anew.
C8_SetBySaveOnly ==
    [][/\ \A i \in Persisted(_images) :
            /\ i \in Persisted(_images')
            /\ _images'[i].local_path # _images[i].local_path
                  => lastOp'.op \in {"save_images", "save"} /\ i \in lastOp'.downloaded
       /\ \A i \in Persisted(_images') \ Persisted(_images) :
            /\ i \in lastOp'.downloaded
            /\ Norm(_images'[i].local_path) \in files']_vars

\* C8's case: after an asset was persisted by one call, save_markdown or
\* save_content_html ran with another path and left its local_path alone.
C8_Witness ==
    /\ IsSave(lastOp)
    /\ lastOp.dl
    /\ lastOp.err = "ok"
    /\ lastOp.preset # {}
    /\ \E i \in lastOp.preset : ~StartsWith(_images[i].local_path, lastOp.path)

\* The URL up to its query string.
RECURSIVE BeforeQuery(_)
BeforeQuery(u) ==
    IF u = <<>> \/ Head(u) = "?" THEN <<>> ELSE <<Head(u)>> \o BeforeQuery(Tail(u))

\* The part of s after its last "/".
RECURSIVE AfterLastSlash(_)
AfterLastSlash(s) ==
    IF \A i \in 1..Len(s) : s[i] # "/" THEN s ELSE AfterLastSlash(Tail(s))

\* C9: get_filename returns the final path segment of the URL with the query
\* string removed, whatever the query string contains.
C9_FilenameIsLastSegment ==
    lastOp.op = "get_filename" => lastOp.out = AfterLastSlash(BeforeQuery(url))

\* C10: output and assets stay consistent.  When save_markdown / save_content_html
\* with download_images returns, every image the written content refers to has
\* its file on disk under that call's output directory.
C10_OutputAssetsConsistent ==
    (IsSave(lastOp) /\ lastOp.dl /\ lastOp.err = "ok") =>
        \A i \in 1..Len(_images) :
            Occurs(lastOp.rendered, _images[i].url)
                => /\ Norm(_images[i].local_path) \in files
                   /\ IsUnder(Norm(_images[i].local_path), lastOp.path)

====
